---- MODULE Spec2Model ----
(***************************************************************************)
(* MotorControl (goat_gps_tracking_no_imu_raw_cmd_power_sensor_v2):        *)
(* differential-drive mixer that turns velocity commands into 12-bit LEDC  *)
(* duty values for a left, a right and a winch channel.                    *)
(*                                                                         *)
(* Commands are C doubles in the source.  Here a command is the exact      *)
(* rational n / Den, held as the integer n; a normalised command is the    *)
(* record [num, den] standing for num / den.  On the grids used (halves,   *)
(* thirds, quarters) the truncation of command*1000 computed on exact      *)
(* rationals equals the one IEEE-754 doubles give.                         *)
(* long, int and uint32_t are 32 bits wide (ESP32), uint16_t is 16 bits.   *)
(***************************************************************************)
EXTENDS Integers, Sequences, FiniteSets, TLC

VARIABLES PWM_LEFT_CHANNEL, PWM_RIGHT_CHANNEL, WINCH_CHANNEL,
          build, chanConfig, pinChannel, chanDuty,
          call, cmd, writes, winchByUpdate

vars == <<PWM_LEFT_CHANNEL, PWM_RIGHT_CHANNEL, WINCH_CHANNEL,
          build, chanConfig, pinChannel, chanDuty,
          call, cmd, writes, winchByUpdate>>

------------------------------------------------------------------------------
(* Bounds of the model *)

\* commands are multiples of 1 / Den
Den == 2
\* the command grid is -MaxCmd .. MaxCmd, in units of 1 / Den
MaxCmd == 2
\* hardware channel identifiers are 0 .. MaxChannel
MaxChannel == 2

------------------------------------------------------------------------------
(* Program constants *)

SERVO_MIN == 500
SERVO_MAX == 2500
PWM_TIMER_12_BIT == 12
PWM_BASE_FREQ == 333
\* the valueMax every call site passes to ledcAnalogWrite, and the upper end
\* of the duty range handed to map
DUTY_MAX == 4095
\* the factor in command * 1000, and the command range -1000 .. 1000 of map
MILLI == 1000
LONG_MAX == 2147483647
UINT16_RANGE == 65536
UINT8_RANGE == 256

LONG_MIN == -LONG_MAX - 1

Channels == 0 .. MaxChannel
\* no channel attached yet / no duty written yet
NoChannel == 0 - 1
NoDuty == 0 - 1
Roles == {"left", "right", "winch"}
Pins == {"leftPinFront", "rightPinFront", "leftPinBack", "rightPinBack", "winchPin"}

\* What an overflowing signed operation or an out-of-range double -> long
\* conversion (both undefined in C++) yields: the low 32 bits, or the nearest
\* representable value.  One of the two holds for the whole run.
Builds == {"wrap", "saturate"}

GridCmds == -MaxCmd .. MaxCmd
\* whole-unit commands inside [-1, 1]
WholeCmds == {k * Den : k \in -1 .. 1}
\* commands far outside [-1, 1], in whole units
ExtremeUnits == {-3000000, -2000, -2, 2, 48, 600, 3000000}
ExtremeCmds == {k * Den : k \in ExtremeUnits}
DriveCmds == GridCmds
WinchCmds == WholeCmds \cup ExtremeCmds
WheelCmds == {k * Den : k \in {-2, -1, 0, 1, 2, 48}}

------------------------------------------------------------------------------
(* Arithmetic of the target *)

abs(x) == IF x < 0 THEN -x ELSE x
max(a, b) == IF a > b THEN a ELSE b
min(a, b) == IF a < b THEN a ELSE b

\* C integer division for a positive divisor: truncation toward zero
TruncDiv(a, b) == (a \div b) + (IF a < 0 /\ a % b # 0 THEN 1 ELSE 0)

\* a + b on 32 bits, two's complement
WrapAdd(a, b) ==
    IF b > 0 /\ a > LONG_MAX - b
    THEN ((a - LONG_MAX) - 1) + ((b - LONG_MAX) - 1)
    ELSE IF b < 0 /\ a < LONG_MIN - b
    THEN ((a + LONG_MAX) + 1) + ((b + LONG_MAX) + 1)
    ELSE a + b

AddOverflows(a, b) ==
    \/ b > 0 /\ a > LONG_MAX - b
    \/ b < 0 /\ a < LONG_MIN - b

RECURSIVE WrapMul(_, _)
\* a * b on 32 bits, two's complement, for b >= 0
WrapMul(a, b) ==
    IF b = 0 THEN 0
    ELSE LET h == WrapMul(a, b \div 2)
             d == WrapAdd(h, h)
         IN  IF b % 2 = 1 THEN WrapAdd(d, a) ELSE d

WrapNeg(a) == IF a = LONG_MIN THEN LONG_MIN ELSE -a

MulOverflows(a, b) ==
    /\ b > 0
    /\ \/ a > LONG_MAX \div b
       \/ a < -(LONG_MAX \div b) - (IF LONG_MAX % b = b - 1 THEN 1 ELSE 0)

Add32(b, x, y) ==
    IF ~AddOverflows(x, y) THEN x + y
    ELSE IF b = "wrap" THEN WrapAdd(x, y)
    ELSE IF y > 0 THEN LONG_MAX ELSE LONG_MIN

Mul32(b, x, y) ==
    IF ~MulOverflows(x, y) THEN x * y
    ELSE IF b = "wrap" THEN WrapMul(x, y)
    ELSE IF x > 0 THEN LONG_MAX ELSE LONG_MIN

\* the conversion of the double (c.num / c.den) * 1000 to long
DoubleToLong(b, c) ==
    LET n == abs(c.num)
        q == n \div c.den
        frac == (MILLI * (n % c.den)) \div c.den
        inRange == \/ q < LONG_MAX \div MILLI
                   \/ q = LONG_MAX \div MILLI /\ frac <= LONG_MAX % MILLI
        low == WrapAdd(WrapMul(q, MILLI), frac)
    IN  IF inRange
        THEN (IF c.num < 0 THEN -1 ELSE 1) * (MILLI * q + frac)
        ELSE IF b = "saturate"
        THEN (IF c.num > 0 THEN LONG_MAX ELSE LONG_MIN)
        ELSE IF c.num > 0 THEN low ELSE WrapNeg(low)

\* Arduino map(x, in_min, in_max, out_min, out_max) on long:
\* (x - in_min) * (out_max - out_min) / (in_max - in_min) + out_min
map(b, x, in_min, in_max, out_min, out_max) ==
    LET run == in_max - in_min
        rise == out_max - out_min
        delta == Add32(b, x, -in_min)
    IN  Add32(b, TruncDiv(Mul32(b, delta, rise), run), out_min)

\* the conversion of the long that map returns to the uint16_t duty-cycle variable
ToUint8(x) == x % UINT8_RANGE
ToUint16(x) == x % UINT16_RANGE

\* 1e6 / PWM_BASE_FREQ, a double, converted to the long parameter of map
PeriodUsRoundedUp == (1000000 \div PWM_BASE_FREQ) + 1
PeriodUs == 1000000 \div PWM_BASE_FREQ

------------------------------------------------------------------------------
(* The command pipeline of update and updateRightLeft *)

\* leftWheelCommand and rightWheelCommand before normalisation
MixIgnoringSteeringRight(forward, steering) ==
    [left |-> forward + steering, right |-> forward]
Mix(forward, steering) ==
    [left |-> forward + steering, right |-> forward - steering]

\* division of both wheel commands by maxValue; 1.0 is Den / Den
NormalizeEachOnItsOwn(left, right) ==
    [left  |-> [num |-> left,  den |-> max(abs(left), Den)],
     right |-> [num |-> right, den |-> max(abs(right), Den)]]
Normalize(left, right) ==
    LET maxValue == max(max(abs(left), abs(right)), Den)
    IN  [left  |-> [num |-> left,  den |-> maxValue],
         right |-> [num |-> right, den |-> maxValue]]

\* the three commands update hands to map
UpdateCommandsWinchScaled(forward, steering, winch) ==
    LET m == Mix(forward, steering)
        n == Normalize(m.left, m.right)
    IN  [left |-> n.left, right |-> n.right,
         winch |-> [num |-> winch, den |-> n.left.den]]
UpdateCommands(forward, steering, winch) ==
    LET m == Mix(forward, steering)
        n == Normalize(m.left, m.right)
    IN  [left |-> n.left, right |-> n.right,
         winch |-> [num |-> winch, den |-> Den]]

\* the two commands updateRightLeft hands to map: no normalisation
RightLeftCommandsNormalized(left, right) ==
    Normalize(left, right)
RightLeftCommands(left, right) ==
    [left  |-> [num |-> left,  den |-> Den],
     right |-> [num |-> right, den |-> Den]]

\* int pulse width = map(command * 1000, -1000, 1000, SERVO_MIN, SERVO_MAX)
Pulsewidth(b, c) ==
    map(b, DoubleToLong(b, c), -MILLI, MILLI, SERVO_MIN, SERVO_MAX)

\* the long that map(pulse, 0, 1e6 / PWM_BASE_FREQ, 0, 4095) returns
MappedDuty(b, pulse) == map(b, pulse, 0, PeriodUs, 0, DUTY_MAX)

\* ledcAnalogWrite: the channel and the duty handed to ledcWrite
ledcAnalogWriteUnclamped(channel, value, valueMax) ==
    [channel |-> channel % UINT8_RANGE,
     duty    |-> (DUTY_MAX \div valueMax) * value]
ledcAnalogWrite(channel, value, valueMax) ==
    [channel |-> channel % UINT8_RANGE,
     duty    |-> (DUTY_MAX \div valueMax) * min(value, valueMax)]

\* one ledcAnalogWrite call of update / updateRightLeft, with its intermediates
WriteOf(b, role, channel, c) ==
    LET pulse == Pulsewidth(b, c)
        mapped == MappedDuty(b, pulse)
        w == ledcAnalogWrite(channel, ToUint16(mapped), DUTY_MAX)
    IN  [role |-> role, channel |-> w.channel, pulse |-> pulse,
         mapped |-> mapped, duty |-> w.duty]

\* the duty a command ends as, whatever the channel
ChannelDuty(b, c) == WriteOf(b, "left", 0, c).duty

UpdateDuties(b, forward, steering, winch) ==
    LET c == UpdateCommands(forward, steering, winch)
    IN  [r \in Roles |-> ChannelDuty(b, c[r])]

RightLeftDuties(b, left, right) ==
    LET c == RightLeftCommands(left, right)
    IN  [r \in {"left", "right"} |-> ChannelDuty(b, c[r])]

------------------------------------------------------------------------------
(* The PWM driver *)

RECURSIVE ledcWriteAll(_, _)
\* ledcWrite(channel, duty) for each write of ws, in order
ledcWriteAll(duty, ws) ==
    IF ws = <<>> THEN duty
    ELSE ledcWriteAll([duty EXCEPT ![Head(ws).channel] = Head(ws).duty], Tail(ws))

\* the three ledcSetup calls of begin
ledcSetupAll(config, left, right, winch) ==
    LET setting == <<PWM_BASE_FREQ, PWM_TIMER_12_BIT>>
    IN  [c \in Channels |-> IF c \in {left, right, winch} THEN setting ELSE config[c]]

\* the five ledcAttachPin calls of begin, in order
ledcAttachAll(left, right, winch) ==
    [p \in Pins |->
        IF p \in {"leftPinFront", "leftPinBack"} THEN left
        ELSE IF p \in {"rightPinFront", "rightPinBack"} THEN right
        ELSE winch]

------------------------------------------------------------------------------
(* State after construction *)

Constructed(leftChannelFront, rightChannelFront, leftChannelBack, rightChannelBack, winchChannel) ==
    /\ PWM_LEFT_CHANNEL = leftChannelFront
    /\ PWM_RIGHT_CHANNEL = rightChannelBack
    /\ WINCH_CHANNEL = winchChannel
    /\ chanConfig = [c \in Channels |-> <<>>]
    /\ pinChannel = [p \in Pins |-> NoChannel]
    /\ chanDuty = [c \in Channels |-> NoDuty]
    /\ call = [op |-> "MotorControl", args |-> <<>>]
    /\ cmd = <<>>
    /\ writes = <<>>
    /\ winchByUpdate = NoDuty

\* any channel identifiers
Init ==
    /\ build \in Builds
    /\ \E lf, rf, lb, rb, w \in Channels : Constructed(lf, rf, lb, rb, w)

\* the state setup() leaves: constructed with pairwise distinct channel
\* identifiers, begin called
InitBegun ==
    /\ build \in Builds
    /\ PWM_LEFT_CHANNEL = 0
    /\ PWM_RIGHT_CHANNEL = 1
    /\ WINCH_CHANNEL = 2
    /\ chanConfig = ledcSetupAll([c \in Channels |-> <<>>], 0, 1, 2)
    /\ pinChannel = ledcAttachAll(0, 1, 2)
    /\ chanDuty = [c \in Channels |-> NoDuty]
    /\ call = [op |-> "begin", args |-> <<>>]
    /\ cmd = <<>>
    /\ writes = <<>>
    /\ winchByUpdate = NoDuty

------------------------------------------------------------------------------
(* Operations *)

begin ==
    /\ chanConfig' = ledcSetupAll(chanConfig, PWM_LEFT_CHANNEL, PWM_RIGHT_CHANNEL, WINCH_CHANNEL)
    /\ pinChannel' = ledcAttachAll(PWM_LEFT_CHANNEL, PWM_RIGHT_CHANNEL, WINCH_CHANNEL)
    /\ call' = [op |-> "begin", args |-> <<>>]
    /\ cmd' = <<>>
    /\ writes' = <<>>
    /\ UNCHANGED <<PWM_LEFT_CHANNEL, PWM_RIGHT_CHANNEL, WINCH_CHANNEL, build,
                   chanDuty, winchByUpdate>>

updateCall(forwardVelocityCommand, steeringVelocityCommand, winchCommand) ==
    LET c == UpdateCommands(forwardVelocityCommand, steeringVelocityCommand, winchCommand)
        ws == <<WriteOf(build, "left", PWM_LEFT_CHANNEL, c.left),
                WriteOf(build, "right", PWM_RIGHT_CHANNEL, c.right),
                WriteOf(build, "winch", WINCH_CHANNEL, c.winch)>>
    IN  /\ call' = [op |-> "update",
                    args |-> <<forwardVelocityCommand, steeringVelocityCommand, winchCommand>>]
        /\ cmd' = c
        /\ writes' = ws
        /\ chanDuty' = ledcWriteAll(chanDuty, ws)
        /\ winchByUpdate' = ws[3].duty
        /\ UNCHANGED <<PWM_LEFT_CHANNEL, PWM_RIGHT_CHANNEL, WINCH_CHANNEL, build,
                       chanConfig, pinChannel>>

updateRightLeftCall(leftWheelCommand, rightWheelCommand) ==
    LET c == RightLeftCommands(leftWheelCommand, rightWheelCommand)
        ws == <<WriteOf(build, "left", PWM_LEFT_CHANNEL, c.left),
                WriteOf(build, "right", PWM_RIGHT_CHANNEL, c.right)>>
    IN  /\ call' = [op |-> "updateRightLeft",
                    args |-> <<leftWheelCommand, rightWheelCommand>>]
        /\ cmd' = c
        /\ writes' = ws
        /\ chanDuty' = ledcWriteAll(chanDuty, ws)
        /\ UNCHANGED <<PWM_LEFT_CHANNEL, PWM_RIGHT_CHANNEL, WINCH_CHANNEL, build,
                       chanConfig, pinChannel, winchByUpdate>>

\* calls with whole-unit commands
update ==
    \E f, s, w \in WholeCmds : updateCall(f, s, w)

updateRightLeft ==
    \E l, r \in WholeCmds : updateRightLeftCall(l, r)

\* calls over the whole command range
updateAny ==
    \E f, s \in DriveCmds : \E w \in WinchCmds : updateCall(f, s, w)

updateRightLeftAny ==
    \E l, r \in WheelCmds : updateRightLeftCall(l, r)

Next == begin \/ update \/ updateRightLeft

NextCmd == updateAny \/ updateRightLeftAny

\* every channel assignment the constructor accepts, whole-unit commands
Spec == Init /\ [][Next]_vars

\* distinct channels, begin called, the whole command range
SpecCmd == InitBegun /\ [][NextCmd]_vars

------------------------------------------------------------------------------
(* Properties *)

IsUpdate == call.op = "update"
IsRightLeft == call.op = "updateRightLeft"
forward == call.args[1]
steering == call.args[2]
winch == call.args[3]
leftArg == call.args[1]
rightArg == call.args[2]

Unit(k) == [num |-> k, den |-> 1]
InUnitRange(c) == abs(c.num) <= c.den
LeRat(a, b) == a.num * b.den <= b.num * a.den
\* every intermediate of the pipeline of command c fits 32 bits
FitsLong(c) == abs(c.num) <= 500 * c.den
PairwiseDistinct == Cardinality({PWM_LEFT_CHANNEL, PWM_RIGHT_CHANNEL, WINCH_CHANNEL}) = 3
\* normalised commands p / q of [-1, 1]
NormCmds == UNION {{[num |-> p, den |-> q] : p \in -q .. q} : q \in 1 .. 2 * MaxCmd}

\* C1: every duty handed to ledcWrite, for the left, right and winch channel,
\* after any sequence of update and updateRightLeft calls with commands of any
\* magnitude and sign, is an integer of 0 .. 4095.
DutyInRange ==
    /\ \A i \in 1 .. Len(writes) : writes[i].duty \in 0 .. DUTY_MAX
    /\ \A c \in Channels : chanDuty[c] # NoDuty => chanDuty[c] \in 0 .. DUTY_MAX

\* update with a winch command of -3,000,000, which times 1000 is outside long,
\* has written its three duties
DutyInRangeWitness ==
    /\ IsUpdate
    /\ winch = -3000000 * Den
    /\ ~FitsLong(cmd.winch)
    /\ writes[3].duty \in 0 .. DUTY_MAX
    /\ chanDuty[PWM_LEFT_CHANNEL] = writes[1].duty

\* C2: the final clamp saturates: a command whose linearly mapped duty value is
\* below 0 is written as 0, one whose mapped value is above 4095 as 4095; the
\* 16-bit duty variable never wraps the value.  Stated for the commands whose
\* pipeline stays within 32 bits.
ClampSaturates ==
    \A i \in 1 .. Len(writes) :
        FitsLong(cmd[writes[i].role]) =>
            /\ writes[i].mapped < 0 => writes[i].duty = 0
            /\ writes[i].mapped > DUTY_MAX => writes[i].duty = DUTY_MAX

\* C3: update divides left = f + s and right = f - s by the same divisor
\* max(1, |left|, |right|): the mix ratio is preserved, no normalised command
\* exceeds 1 in magnitude, commands within [-1, 1] are unchanged, and f = s = 1
\* gives 1 and 0.
NormalizationProportional ==
    IsUpdate =>
        LET l == forward + steering
            r == forward - steering
            scale == max(Den, max(abs(l), abs(r)))
        IN  /\ cmd.left.den = cmd.right.den
            /\ cmd.left.num * scale = l * cmd.left.den
            /\ cmd.right.num * scale = r * cmd.right.den
            /\ cmd.left.num * cmd.right.den * r = cmd.right.num * cmd.left.den * l
            /\ InUnitRange(cmd.left) /\ InUnitRange(cmd.right)
            /\ (abs(l) <= Den /\ abs(r) <= Den) =>
                   /\ cmd.left.num * Den = l * cmd.left.den
                   /\ cmd.right.num * Den = r * cmd.right.den
            /\ (forward = Den /\ steering = Den) =>
                   /\ cmd.left.num = cmd.left.den
                   /\ cmd.right.num = 0

\* update(1, 1, w): left = 2 is scaled down to 1, right = 0
NormalizationWitness ==
    /\ IsUpdate
    /\ forward = Den /\ steering = Den
    /\ cmd.left.den = 2 * Den
    /\ cmd.left.num = cmd.left.den
    /\ cmd.right.num = 0

\* C4: update(0, 0, w) writes the neutral duty, floor(1500 * 4095 / 3003) =
\* 2045 (pulse width 1500), to both drive channels, and update(0, 0, 0) to the
\* winch channel too.
NeutralDuty ==
    (IsUpdate /\ forward = 0 /\ steering = 0) =>
        /\ writes[1].pulse = 1500 /\ writes[2].pulse = 1500
        /\ writes[1].duty = 2045 /\ writes[2].duty = 2045
        /\ (1500 * DUTY_MAX) \div 3003 = 2045
        /\ winch = 0 => (writes[3].pulse = 1500 /\ writes[3].duty = 2045)

\* update(0, 0, 0) has written all three channels
NeutralWitness ==
    /\ IsUpdate
    /\ forward = 0 /\ steering = 0 /\ winch = 0
    /\ \A i \in 1 .. 3 : writes[i].duty = 2045

\* C5: the left duty of update(f, s, w) is the right duty of update(f, -s, w),
\* and the right duty the left one; with s = 0 both duties are equal.
MixSymmetry ==
    IsUpdate =>
        LET mirrored == UpdateDuties(build, forward, -steering, winch)
        IN  /\ writes[1].duty = mirrored["right"]
            /\ writes[2].duty = mirrored["left"]
            /\ steering = 0 => writes[1].duty = writes[2].duty

\* a turn: the two drive duties differ
MixSymmetryWitness ==
    /\ IsUpdate
    /\ steering # 0
    /\ writes[1].duty > writes[2].duty

\* C6: the left and right duties of update(f, s, w) are the same for every w,
\* and the winch duty is the same for every f and s.
WinchIndependence ==
    IsUpdate =>
        /\ \A w2 \in WinchCmds :
              LET d == UpdateDuties(build, forward, steering, w2)
              IN  d["left"] = writes[1].duty /\ d["right"] = writes[2].duty
        /\ \A f2 \in DriveCmds : \A s2 \in DriveCmds :
              UpdateDuties(build, f2, s2, winch)["winch"] = writes[3].duty
        /\ cmd.winch = [num |-> winch, den |-> Den]

\* a saturated mix (divisor 2) with a non-neutral winch command
WinchIndependenceWitness ==
    /\ IsUpdate
    /\ cmd.left.den = 2 * Den
    /\ winch = Den
    /\ writes[3].duty = 3409

\* C7: updateRightLeft(l, r) normalises nothing: each command goes through the
\* pipeline on its own, l = 2.0 is written as 4095 and not as the 3409 of a
\* rescaled 1.0, and neither duty depends on the other command.
DirectNoNormalization ==
    IsRightLeft =>
        /\ cmd.left = [num |-> leftArg, den |-> Den]
        /\ cmd.right = [num |-> rightArg, den |-> Den]
        /\ writes[1].duty = ChannelDuty(build, cmd.left)
        /\ writes[2].duty = ChannelDuty(build, cmd.right)
        /\ leftArg = 2 * Den =>
              /\ writes[1].duty = DUTY_MAX
              /\ writes[1].duty # ChannelDuty(build, Unit(1))
        /\ \A x \in WheelCmds :
              /\ RightLeftDuties(build, leftArg, x)["left"] = writes[1].duty
              /\ RightLeftDuties(build, x, rightArg)["right"] = writes[2].duty

\* updateRightLeft(2.0, 1.0)
DirectWitness ==
    /\ IsRightLeft
    /\ leftArg = 2 * Den /\ rightArg = Den
    /\ writes[1].duty = 4095
    /\ writes[2].duty = 3409

\* C8: updateRightLeft performs exactly two driver writes, to the left and to
\* the right channel, and none to the winch channel: the winch channel keeps
\* the duty the most recent update call wrote.
WinchUntouched ==
    /\ IsRightLeft =>
          /\ Len(writes) = 2
          /\ writes[1].channel = PWM_LEFT_CHANNEL
          /\ writes[2].channel = PWM_RIGHT_CHANNEL
          /\ \A i \in 1 .. Len(writes) : writes[i].channel # WINCH_CHANNEL
    /\ winchByUpdate # NoDuty => chanDuty[WINCH_CHANNEL] = winchByUpdate

\* C9: for any two normalised commands a <= b of [-1, 1] the duty written for
\* a is at most the duty written for b, on every channel; -1 is written as 681
\* (pulse 500) and 1 as 3409 (pulse 2500).
DutyMonotone ==
    \A i \in 1 .. Len(writes) :
        LET a == cmd[writes[i].role]
        IN  InUnitRange(a) =>
              /\ \A b \in NormCmds :
                    /\ LeRat(a, b) => writes[i].duty <= ChannelDuty(build, b)
                    /\ LeRat(b, a) => ChannelDuty(build, b) <= writes[i].duty
              /\ a.num = -a.den => (writes[i].pulse = SERVO_MIN /\ writes[i].duty = 681)
              /\ a.num = a.den => (writes[i].pulse = SERVO_MAX /\ writes[i].duty = 3409)

\* a fractional negative command, truncated toward zero: -1/3 -> -333
DutyMonotoneWitness ==
    /\ IsUpdate
    /\ cmd.right.num < 0
    /\ (MILLI * cmd.right.num) % cmd.right.den # 0
    /\ writes[2].pulse = 1500 - ((MILLI * (-cmd.right.num)) \div cmd.right.den)
    /\ writes[2].duty < 2045

\* C10: with channel identifiers that are not pairwise distinct no call puts
\* two logical roles on the same hardware channel.
DegenerateRejected ==
    ~PairwiseDistinct =>
        /\ \A i, j \in 1 .. Len(writes) :
              writes[i].channel = writes[j].channel => writes[i].role = writes[j].role
        /\ pinChannel["leftPinFront"] # NoChannel =>
              Cardinality({pinChannel[p] : p \in {"leftPinFront", "rightPinFront", "winchPin"}}) = 3

====
